---- MODULE Spec2Model ----
(***************************************************************************)
(* Model of d405_pipeline.py: the colour sampling of stream_data, the      *)
(* RealSenseD405 session (constructor, acquisition, stop, reset, __del__)  *)
(* and the worker process _DataPipeline.run.                               *)
(*                                                                         *)
(* Texture coordinates are the rationals n / TexDen; the float arithmetic  *)
(* of line 75 is exact on them.  An unsigned 32-bit integer is the pair    *)
(* <<high half, low half>> of its 16-bit halves.                           *)
(***************************************************************************)
EXTENDS Integers, Sequences, FiniteSets, TLC

\* ------------------------------------------------------------- bounds
MaxDim == 2
MaxTex == 4
TexDen == 2
MaxCalls == 3
MaxReq == 3

VARIABLES
    frames,     \* what pipe.wait_for_frames() and pc.calculate() hand to stream_data
    castMode,   \* what this build's float -> uint32 cast does outside [0, 2^32)
    sd,         \* stream_data's locals when it returns
    ret,        \* what the entry point returned to the caller
    call        \* the entry point that was called

streamVars == <<frames, castMode, sd, ret, call>>

VARIABLES
    resolution, \* the constructor's resolution argument
    device,     \* the constructor's device argument
    driver,     \* the rs.pipeline behind the session: librealsense, or a test double
    pc,         \* where the caller of the session is
    config,     \* self._config: the device and streams enabled so far
    startedWith,\* the configuration pipeline.start() was given
    streaming,  \* whether the driver's pipeline is started
    rebooted,   \* whether device.hardware_reset() was called
    op,         \* the method of the session called last
    waits,      \* wait_for_frames calls made for the current request
    calcs,      \* pc.calculate calls made for the current request
    faultAt,    \* the driver call of the current request that faulted
    result,     \* what the current request handed to its caller
    exc         \* the exception the last method ended with

sessionVars == <<resolution, device, driver, pc, config, startedWith, streaming,
                 rebooted, op, waits, calcs, faultAt, result, exc>>

VARIABLES
    req_q,      \* the request queue
    res_q,      \* the response queue
    wpc,        \* where the worker process is in run
    req_packet, \* the request the worker took last
    wStreaming, \* whether the worker's pipeline is started
    sent,       \* every request the caller has put, in order
    taken       \* every response the caller has taken, in order

workerVars == <<req_q, res_q, wpc, req_packet, wStreaming, sent, taken>>

vars == <<streamVars, sessionVars, workerVars>>

\* ------------------------------------------------------------- inputs
Dims == 1..MaxDim
TexNums == (-MaxTex)..MaxTex
TexSide == 2 * MaxTex + 1
TexCount == TexSide * TexSide

\* the k-th texture coordinate of the grid TexNums \X TexNums
TexAt(k) == <<(k % TexSide) - MaxTex, ((k \div TexSide) % TexSide) - MaxTex>>

\* the colour image's content: pixel (0, 0) is one of these, chosen with the texture
\* coordinates' grid index so that the inputs stay a family of manageable size
BasePixels == << <<0, 0, 0>>, <<10, 20, 30>>, <<255, 128, 1>>, <<7, 200, 7>> >>
BaseOf(k) == BasePixels[(k % Len(BasePixels)) + 1]

CastModes == {"wrap", "zero", "max"}

\* the byte triple of color_image[r, c]
Pixel(img, r, c) ==
    LET k == r * img.w + c
    IN  << (img.base[1] + 3 * k) % 256,
           (img.base[2] + 5 * k) % 256,
           (img.base[3] + 11 * k) % 256 >>

\* one vertex and one texture coordinate per depth pixel, as flat float buffers
DriverFrames(dw, dh, w, h, k0) ==
    LET n == dw * dh
    IN  [ depth_image |-> [w |-> dw, h |-> dh],
          color_image |-> [w |-> w, h |-> h, base |-> BaseOf(k0)],
          vertices    |-> [i \in 1..(3 * n) |-> i],
          texture     |-> [i \in 1..(2 * n) |->
                              TexAt(k0 + ((i - 1) \div 2) * (TexSide + 1))[2 - (i % 2)]] ]

\* ------------------------------------------------------------- stream_data
\* a faulty reshape: the row count of reshape(-1, 3) whatever the row length
Reshape_Triples(buf, k) ==
    [i \in 1..(Len(buf) \div 3) |-> [j \in 1..k |-> buf[(i - 1) * k + j]]]

\* ndarray.reshape(-1, k) of a flat buffer
Reshape(buf, k) ==
    [i \in 1..(Len(buf) \div k) |-> [j \in 1..k |-> buf[(i - 1) * k + j]]]

\* color_image.shape[:2][::-1]
ShapeReversed(img) ==
    LET shape == <<img.h, img.w, 3>>
        two   == SubSeq(shape, 1, 2)
    IN  <<two[2], two[1]>>

Half == 2 ^ 16

\* float -> integer conversion truncates towards zero; num / den with den > 0
Trunc(num, den) == IF num >= 0 THEN num \div den ELSE -((-num) \div den)

\* (x).astype(np.uint32) of the float num / den: defined for values in [0, 2^32),
\* and outside of it whatever the build's cast instruction yields
AstypeUint32(num, den, mode) ==
    LET t == Trunc(num, den)
    IN  IF t >= 0 THEN <<t \div Half, t % Half>>
        ELSE CASE mode = "wrap" -> <<Half + (t \div Half), t % Half>>
               [] mode = "zero" -> <<0, 0>>
               [] mode = "max"  -> <<Half - 1, Half - 1>>

U32(n) == <<n \div Half, n % Half>>
U32Less(a, b) == a[1] < b[1] \/ (a[1] = b[1] /\ a[2] < b[2])

\* np.clip(x, lo, hi) on one uint32 element: minimum(maximum(x, lo), hi)
Clip(x, lo, hi) ==
    LET m == IF U32Less(x, U32(lo)) THEN U32(lo) ELSE x
    IN  IF U32Less(U32(hi), m) THEN U32(hi) ELSE m

\* (texcoords * (cw, ch) + 0.5).astype(np.uint32): one row per texture coordinate
ScaledIndex(texcoords, cw, ch, mode) ==
    [i \in 1..Len(texcoords) |->
        << AstypeUint32(2 * texcoords[i][1] * cw + TexDen, 2 * TexDen, mode),
           AstypeUint32(2 * texcoords[i][2] * ch + TexDen, 2 * TexDen, mode) >>]

\* row k of the transpose (.T) of an n x 2 array
TransposeRow(a, k) == [i \in 1..Len(a) |-> a[i][k]]

\* faulty clip bounds: each index clipped against the other axis
ClipMaxU_Swapped(cw, ch) == cw - 1
ClipMaxV_Swapped(cw, ch) == ch - 1

\* the upper clip bound of line 76 (for u) and of line 77 (for v)
ClipMaxU(cw, ch) == ch - 1
ClipMaxV(cw, ch) == cw - 1

ClipAll(a, lo, hi) == [i \in 1..Len(a) |-> Clip(a[i], lo, hi)]

InBounds(img, r, c) == r[1] = 0 /\ r[2] < img.h /\ c[1] = 0 /\ c[2] < img.w

\* color_image[u, v]: the first index array addresses rows, the second columns
GatherRows(u, v) == u
GatherCols(u, v) == v

\* color_image[rows, cols] / 255: one byte triple per index pair, each byte over 255
Gather(img, rows, cols) ==
    [i \in 1..Len(rows) |->
        LET p == Pixel(img, rows[i][2], cols[i][2])
        IN  << <<p[1], 255>>, <<p[2], 255>> , <<p[3], 255>> >>]

\* a faulty swap: channel 0 overwritten before it is read
SwapChannels_InPlace(c) == <<c[3], c[2], c[3]>>

\* pc_color[:, [0, 2]] = pc_color[:, [2, 0]]: the right side is a copy
SwapChannels(c) == <<c[3], c[2], c[1]>>

stream_data(fr, mode) ==
    LET depth_image == fr.depth_image
        color_image == fr.color_image
        verts       == Reshape(fr.vertices, 3)
        texcoords   == Reshape(fr.texture, 2)
        rev         == ShapeReversed(color_image)
        cw          == rev[1]
        ch          == rev[2]
        idx         == ScaledIndex(texcoords, cw, ch, mode)
        v0          == TransposeRow(idx, 1)
        u0          == TransposeRow(idx, 2)
        u           == ClipAll(u0, 0, ClipMaxU(cw, ch))
        v           == ClipAll(v0, 0, ClipMaxV(cw, ch))
        rows        == GatherRows(u, v)
        cols        == GatherCols(u, v)
        ok          == \A i \in 1..Len(rows) : InBounds(color_image, rows[i], cols[i])
        gathered    == IF ok THEN Gather(color_image, rows, cols) ELSE <<>>
        pc_color    == [i \in 1..Len(gathered) |-> SwapChannels(gathered[i])]
    IN  [ exc |-> IF ok THEN "none" ELSE "IndexError",
          verts |-> verts, texcoords |-> texcoords, cw |-> cw, ch |-> ch,
          u |-> u, v |-> v, rows |-> rows, cols |-> cols,
          rows0 |-> GatherRows(u0, v0), cols0 |-> GatherCols(u0, v0),
          pc_color |-> pc_color,
          depth_image |-> depth_image, color_image |-> color_image ]

\* ------------------------------------------------------------- RealSenseD405
DEPTH_RESOLUTION_MID == <<848, 480>>
COLOR_RESOLUTION_MID == <<848, 480>>
DEPTH_RESOLUTION_HIGH == <<1280, 720>>
COLOR_RESOLUTION_HIGH == <<1280, 720>>
DEPTH_FPS == 30
COLOR_FPS == 30

Resolutions == {"mid", "high", "low"}
Devices == {"None", "serial"}
Drivers == {"librealsense", "double"}
Entries == {"get_all_data", "get_pcd_color", "get_pcd", "get_color_img", "get_depth_img"}

\* assert resolution in ['mid', 'high']
AssertResolution(r) == r \in {"mid", "high"}

\* the if / else of lines 154-159
DepthResolutionOf(r) ==
    IF r = "high" THEN DEPTH_RESOLUTION_HIGH ELSE DEPTH_RESOLUTION_MID
\* a faulty selection: the branches exchanged
ColorResolutionOf_Swapped(r) ==
    IF r = "high" THEN COLOR_RESOLUTION_MID ELSE COLOR_RESOLUTION_HIGH

ColorResolutionOf(r) ==
    IF r = "high" THEN COLOR_RESOLUTION_HIGH ELSE COLOR_RESOLUTION_MID

Stream(res, format, fps) == [w |-> res[1], h |-> res[2], format |-> format, fps |-> fps]

\* rs.config() before any enable_stream
NoStream == [w |-> 0, h |-> 0, format |-> "off", fps |-> 0]
NoConfig == [device |-> "any", depth |-> NoStream, color |-> NoStream]

\* a faulty handler: the driver call is made again
AfterFault_Retry(step) == step

\* nothing catches a driver fault: it leaves stream_data and the entry point
AfterFault(step) == "raise"

\* rs.pipeline.stop(): librealsense refuses it on a pipeline that is not started
PipelineStopRaises == driver = "librealsense" /\ ~streaming

\* rs.pipeline.wait_for_frames(): librealsense refuses it on a pipeline that is not
\* started, and a started one may time out
WaitOutcomes ==
    IF driver = "librealsense" /\ ~streaming THEN {"fault"} ELSE {"ok", "fault"}

\* what each entry point keeps of stream_data's tuple
ResultOf(e) ==
    CASE e = "get_all_data"  -> <<"verts", "pc_color", "depth_image", "color_image">>
      [] e = "get_pcd_color" -> <<"verts", "pc_color">>
      [] e = "get_pcd"       -> <<"verts">>
      [] e = "get_color_img" -> <<"color_image">>
      [] e = "get_depth_img" -> <<"depth_image">>

SessionIdle ==
    /\ resolution = "high"
    /\ device = "None"
    /\ driver = "librealsense"
    /\ pc = "unused"
    /\ config = NoConfig
    /\ startedWith = NoConfig
    /\ streaming = FALSE
    /\ rebooted = FALSE
    /\ op = "none"
    /\ waits = 0
    /\ calcs = 0
    /\ faultAt = "none"
    /\ result = "none"
    /\ exc = "none"

\* ------------------------------------------------------------- _DataPipeline
\* what a caller may put on the request queue: the sentinel, the intrinsics request, and
\* any other object, which asks for a frame tuple
Requests == {"stop", "intrinsic", "data"}

\* the attributes a _DataPipeline instance has: those __init__ sets (lines 97-102);
\* mp.Process has none of the names used in run
InstanceAttrs == {"_req_q", "_res_q", "_device", "_color_intr", "_intr_mat",
                  "_intr_distcoeffs"}

\* the evaluation of self.<name>
GetAttr(name) == IF name \in InstanceAttrs THEN "value" ELSE "AttributeError"

WorkerIdle ==
    /\ req_q = <<>>
    /\ res_q = <<>>
    /\ wpc = "unused"
    /\ req_packet = "none"
    /\ wStreaming = FALSE
    /\ sent = <<>>
    /\ taken = <<>>

\* ------------------------------------------------------------- entry points
NoCall == [exc |-> "notcalled"]

StreamIdle ==
    /\ frames = DriverFrames(1, 1, 1, 1, 0)
    /\ castMode = "wrap"
    /\ sd = NoCall
    /\ ret = <<>>
    /\ call = "none"

InitStream ==
    /\ SessionIdle
    /\ WorkerIdle
    /\ \E dw \in Dims, dh \in Dims, w \in Dims, h \in Dims,
          k0 \in 0..(TexCount - 1) :
          frames = DriverFrames(dw, dh, w, h, k0)
    /\ castMode \in CastModes
    /\ sd = NoCall
    /\ ret = <<>>
    /\ call = "none"

\* an entry point runs stream_data once and keeps the part of the tuple it returns
Returned(r, picks) ==
    IF r.exc # "none" THEN <<r.exc>>
    ELSE LET all == <<r.verts, r.pc_color, r.depth_image, r.color_image>>
         IN  [i \in 1..Len(picks) |-> all[picks[i]]]

Enter(name, picks) ==
    /\ call = "none"
    /\ call' = name
    /\ sd' = stream_data(frames, castMode)
    /\ ret' = Returned(sd', picks)
    /\ UNCHANGED <<frames, castMode>>
    /\ UNCHANGED <<sessionVars, workerVars>>

get_all_data == Enter("get_all_data", <<1, 2, 3, 4>>)
get_pcd_color == Enter("get_pcd_color", <<1, 2>>)
get_pcd == Enter("get_pcd", <<1>>)
get_color_img == Enter("get_color_img", <<4>>)
get_depth_img == Enter("get_depth_img", <<3>>)

NextStream ==
    \/ get_all_data
    \/ get_pcd_color
    \/ get_pcd
    \/ get_color_img
    \/ get_depth_img

SpecStream == InitStream /\ [][NextStream]_vars

InitSession ==
    /\ StreamIdle
    /\ WorkerIdle
    /\ resolution \in Resolutions
    /\ device \in Devices
    /\ driver \in Drivers
    /\ pc = "new"
    /\ config = NoConfig
    /\ startedWith = NoConfig
    /\ streaming = FALSE
    /\ rebooted = FALSE
    /\ op = "none"
    /\ waits = 0
    /\ calcs = 0
    /\ faultAt = "none"
    /\ result = "none"
    /\ exc = "none"

args == <<resolution, device, driver>>
request == <<waits, calcs, faultAt, result>>

\* __init__, line 148
Init_Assert ==
    /\ pc = "new"
    /\ op' = "__init__"
    /\ IF AssertResolution(resolution)
       THEN pc' = "configure" /\ exc' = "none"
       ELSE pc' = "failed" /\ exc' = "AssertionError"
    /\ UNCHANGED <<args, config, startedWith, streaming, rebooted, request>>
    /\ UNCHANGED <<streamVars, workerVars>>

\* __init__, lines 149-164
Init_Configure ==
    /\ pc = "configure"
    /\ config' = [ device |-> IF device # "None" THEN device ELSE "any",
                   depth  |-> Stream(DepthResolutionOf(resolution), "z16", DEPTH_FPS),
                   color  |-> Stream(ColorResolutionOf(resolution), "bgr8", COLOR_FPS) ]
    /\ pc' = "start"
    /\ UNCHANGED <<args, startedWith, streaming, rebooted, op, request, exc>>
    /\ UNCHANGED <<streamVars, workerVars>>

\* __init__, line 166: the driver starts the stream, or faults (no device)
Init_Start ==
    /\ pc = "start"
    /\ \/ /\ streaming' = TRUE
          /\ startedWith' = config
          /\ pc' = "intrinsics"
          /\ exc' = "none"
       \/ /\ pc' = "failed"
          /\ exc' = "RuntimeError"
          /\ UNCHANGED <<streaming, startedWith>>
    /\ UNCHANGED <<args, config, rebooted, op, request>>
    /\ UNCHANGED <<streamVars, workerVars>>

\* __init__, lines 168-175: one frame is awaited for the intrinsics
Init_Intrinsics ==
    /\ pc = "intrinsics"
    /\ \/ pc' = "ready" /\ exc' = "none"
       \/ pc' = "failed" /\ exc' = "RuntimeError"
    /\ UNCHANGED <<args, config, startedWith, streaming, rebooted, op, request>>
    /\ UNCHANGED <<streamVars, workerVars>>

\* get_all_data, get_pcd, get_color_img, get_depth_img: each enters stream_data
CallEntry ==
    /\ pc = "ready"
    /\ \E e \in Entries : op' = e
    /\ waits' = 0 /\ calcs' = 0 /\ faultAt' = "none"
    /\ result' = "pending"
    /\ exc' = "none"
    /\ pc' = "wait"
    /\ UNCHANGED <<args, config, startedWith, streaming, rebooted>>
    /\ UNCHANGED <<streamVars, workerVars>>

\* stream_data, line 61
WaitForFrames ==
    /\ pc = "wait"
    /\ waits < MaxCalls
    /\ waits' = waits + 1
    /\ \E o \in WaitOutcomes :
          IF o = "ok" THEN pc' = "calculate" /\ UNCHANGED faultAt
          ELSE pc' = AfterFault("wait") /\ faultAt' = "wait"
    /\ UNCHANGED <<args, config, startedWith, streaming, rebooted, op, calcs, result, exc>>
    /\ UNCHANGED <<streamVars, workerVars>>

\* stream_data, lines 62-70
Calculate ==
    /\ pc = "calculate"
    /\ calcs < MaxCalls
    /\ calcs' = calcs + 1
    /\ \E o \in {"ok", "fault"} :
          IF o = "ok" THEN pc' = "return" /\ UNCHANGED faultAt
          ELSE pc' = AfterFault("calculate") /\ faultAt' = "calculate"
    /\ UNCHANGED <<args, config, startedWith, streaming, rebooted, op, waits, result, exc>>
    /\ UNCHANGED <<streamVars, workerVars>>

\* stream_data, lines 71-80, and the entry point's return
Return ==
    /\ pc = "return"
    /\ result' = ResultOf(op)
    /\ pc' = "ready"
    /\ UNCHANGED <<args, config, startedWith, streaming, rebooted, op, waits, calcs,
                   faultAt, exc>>
    /\ UNCHANGED <<streamVars, workerVars>>

\* the fault leaves the entry point as an exception
Raise ==
    /\ pc = "raise"
    /\ result' = "raised"
    /\ exc' = "RuntimeError"
    /\ pc' = "ready"
    /\ UNCHANGED <<args, config, startedWith, streaming, rebooted, op, waits, calcs, faultAt>>
    /\ UNCHANGED <<streamVars, workerVars>>

\* stop, line 263
Stop ==
    /\ pc = "ready"
    /\ op' = "stop"
    /\ IF PipelineStopRaises
       THEN exc' = "RuntimeError" /\ UNCHANGED streaming
       ELSE exc' = "none" /\ streaming' = FALSE
    /\ UNCHANGED <<args, pc, config, startedWith, rebooted, request>>
    /\ UNCHANGED <<streamVars, workerVars>>

\* reset, lines 269-271: "del self" unbinds the local name and nothing else
Reset ==
    /\ pc = "ready"
    /\ op' = "reset"
    /\ rebooted' = TRUE
    /\ exc' = "none"
    /\ UNCHANGED <<args, pc, config, startedWith, streaming, request>>
    /\ UNCHANGED <<streamVars, workerVars>>

\* __del__, line 274, when the session is dropped: self.stop(), whose exception the
\* interpreter reports and drops; a session whose assert failed has no _pipeline
Del ==
    /\ pc \in {"ready", "failed"}
    /\ op' = "__del__"
    /\ pc' = "deleted"
    /\ IF config = NoConfig
       THEN exc' = "AttributeError" /\ UNCHANGED streaming
       ELSE IF PipelineStopRaises
            THEN exc' = "RuntimeError" /\ UNCHANGED streaming
            ELSE exc' = "none" /\ streaming' = FALSE
    /\ UNCHANGED <<args, config, startedWith, rebooted, request>>
    /\ UNCHANGED <<streamVars, workerVars>>

NextSession ==
    \/ Init_Assert
    \/ Init_Configure
    \/ Init_Start
    \/ Init_Intrinsics
    \/ CallEntry
    \/ WaitForFrames
    \/ Calculate
    \/ Return
    \/ Raise
    \/ Stop
    \/ Reset
    \/ Del

SpecSession == InitSession /\ [][NextSession]_vars

\* ------------------------------------------------------------- the worker and its caller
InitWorker ==
    /\ StreamIdle
    /\ SessionIdle
    /\ req_q = <<>>
    /\ res_q = <<>>
    /\ wpc = "new"
    /\ req_packet = "none"
    /\ wStreaming = FALSE
    /\ sent = <<>>
    /\ taken = <<>>

\* run, lines 107-120: the stream is configured and started
W_Start ==
    /\ wpc = "new"
    /\ wStreaming' = TRUE
    /\ wpc' = "get"
    /\ UNCHANGED <<req_q, res_q, req_packet, sent, taken>>
    /\ UNCHANGED <<streamVars, sessionVars>>

\* run, lines 124-127: the blocking get and the dispatch on the packet
W_Get ==
    /\ wpc = "get"
    /\ req_q # <<>>
    /\ req_packet' = Head(req_q)
    /\ req_q' = Tail(req_q)
    /\ wpc' = CASE req_packet' = "stop"      -> "stopping"
                [] req_packet' = "intrinsic" -> "intrinsic"
                [] OTHER                     -> "stream"
    /\ UNCHANGED <<res_q, wStreaming, sent, taken>>
    /\ UNCHANGED <<streamVars, sessionVars>>

\* run, lines 129-136
W_Intrinsic ==
    /\ wpc = "intrinsic"
    /\ res_q' = Append(res_q, "intrinsics")
    /\ wpc' = "get"
    /\ UNCHANGED <<req_q, req_packet, wStreaming, sent, taken>>
    /\ UNCHANGED <<streamVars, sessionVars>>

\* run, line 137
W_Stream ==
    /\ wpc = "stream"
    /\ res_q' = Append(res_q, "frames")
    /\ wpc' = "sleep"
    /\ UNCHANGED <<req_q, req_packet, wStreaming, sent, taken>>
    /\ UNCHANGED <<streamVars, sessionVars>>

\* run, line 138: time.sleep(self.PROCESS_SLEEP_TIME); an exception ends run there
W_Sleep ==
    /\ wpc = "sleep"
    /\ wpc' = IF GetAttr("PROCESS_SLEEP_TIME") = "AttributeError" THEN "crashed" ELSE "get"
    /\ UNCHANGED <<req_q, res_q, req_packet, wStreaming, sent, taken>>
    /\ UNCHANGED <<streamVars, sessionVars>>

\* run, line 139, after the break
W_Stop ==
    /\ wpc = "stopping"
    /\ wStreaming' = FALSE
    /\ wpc' = "terminated"
    /\ UNCHANGED <<req_q, res_q, req_packet, sent, taken>>
    /\ UNCHANGED <<streamVars, sessionVars>>

\* the caller puts a request
C_Put ==
    /\ Len(sent) < MaxReq
    /\ \E r \in Requests :
          /\ req_q' = Append(req_q, r)
          /\ sent' = Append(sent, r)
    /\ UNCHANGED <<res_q, wpc, req_packet, wStreaming, taken>>
    /\ UNCHANGED <<streamVars, sessionVars>>

\* the caller takes a response
C_Take ==
    /\ res_q # <<>>
    /\ taken' = Append(taken, Head(res_q))
    /\ res_q' = Tail(res_q)
    /\ UNCHANGED <<req_q, wpc, req_packet, wStreaming, sent>>
    /\ UNCHANGED <<streamVars, sessionVars>>

NextWorker ==
    \/ W_Start
    \/ W_Get
    \/ W_Intrinsic
    \/ W_Stream
    \/ W_Sleep
    \/ W_Stop
    \/ C_Put
    \/ C_Take

SpecWorker == InitWorker /\ [][NextWorker]_vars

\* ------------------------------------------------------------- properties of stream_data
Called == call # "none"
ImgW == frames.color_image.w
ImgH == frames.color_image.h
Points == 1..Len(sd.rows)
TexIn == Reshape(frames.texture, 2)

\* the pixel index the specification describes: round, then clamp as a signed number
ClampInt(x, lo, hi) == IF x < lo THEN lo ELSE IF x > hi THEN hi ELSE x
RoundedIndex(n, size) == Trunc(2 * n * size + TexDen, 2 * TexDen)

\* C1: the row index of every gather lies in [0, H-1] and the column index in
\* [0, W-1], for every image size and texture coordinate and whatever the cast of
\* an out-of-range value yields, so the gather raises no IndexError.
C1_GatherInBounds ==
    Called =>
        /\ sd.exc = "none"
        /\ \A i \in Points :
              /\ sd.rows[i][1] = 0 /\ sd.rows[i][2] \in 0..(ImgH - 1)
              /\ sd.cols[i][1] = 0 /\ sd.cols[i][2] \in 0..(ImgW - 1)

\* a non-square image sampled at a coordinate below 0 on one axis and above 1 on
\* the other, on a build whose cast wraps
C1_Witness ==
    /\ Called /\ ImgW > ImgH /\ castMode = "wrap" /\ sd.exc = "none"
    /\ \E i \in Points : TexIn[i][1] > TexDen /\ TexIn[i][2] < -TexDen

\* C2: the vertex array and the colour array have the same number of rows, the
\* pixel count of the depth frame, in stream_data and in what get_all_data and
\* get_pcd(return_color=True) return.
C2_RowCounts ==
    LET n == frames.depth_image.w * frames.depth_image.h
    IN  /\ Called => Len(sd.verts) = n /\ Len(sd.pc_color) = n
        /\ call \in {"get_all_data", "get_pcd_color"} =>
              Len(ret[1]) = n /\ Len(ret[2]) = n

C2_Witness ==
    /\ call = "get_pcd_color"
    /\ frames.depth_image.w # frames.depth_image.h
    /\ Len(ret[1]) = 2 /\ Len(ret[2]) = 2

\* C3: every returned colour is the sampled source pixel's bytes over 255 with the
\* first and third channels exchanged and the second unchanged.
C3_ChannelSwap ==
    Called =>
        \A i \in 1..Len(sd.pc_color) :
            LET src == Pixel(frames.color_image, sd.rows[i][2], sd.cols[i][2])
            IN  sd.pc_color[i] = << <<src[3], 255>>, <<src[2], 255>>, <<src[1], 255>> >>

C3_Witness ==
    /\ call = "get_all_data"
    /\ \E i \in 1..Len(ret[2]) :
          /\ ret[2][i][1][1] # ret[2][i][3][1]
          /\ ret[2][i][1][1] = Pixel(frames.color_image, sd.rows[i][2], sd.cols[i][2])[3]

\* C9: every point is sampled at row clamp(trunc(ty*H + 0.5), 0, H-1) and column
\* clamp(trunc(tx*W + 0.5), 0, W-1): an index rounded below 0 samples row 0 or
\* column 0, one above the maximum the last row or column.
C9_RoundedClampedIndex ==
    Called =>
        \A i \in Points :
            /\ sd.rows[i] = U32(ClampInt(RoundedIndex(TexIn[i][2], ImgH), 0, ImgH - 1))
            /\ sd.cols[i] = U32(ClampInt(RoundedIndex(TexIn[i][1], ImgW), 0, ImgW - 1))

\* C10 as stated: the column index array is the one clipped against height - 1 and
\* the row index array the one clipped against width - 1.
C10_OppositeAxis ==
    Called =>
        \A i \in Points :
            /\ sd.cols[i] = Clip(sd.cols0[i], 0, ImgH - 1)
            /\ sd.rows[i] = Clip(sd.rows0[i], 0, ImgW - 1)

\* C10 amended: the column index array is the one clipped against width - 1 and
\* the row index array the one clipped against height - 1, each against its own axis.
C10_OwnAxis ==
    Called =>
        \A i \in Points :
            /\ sd.cols[i] = Clip(sd.cols0[i], 0, ImgW - 1)
            /\ sd.rows[i] = Clip(sd.rows0[i], 0, ImgH - 1)

\* a non-square image and a point whose unclipped indices exceed both dimensions
C10_Witness ==
    /\ Called /\ ImgW # ImgH
    /\ \E i \in Points :
          /\ U32Less(U32(MaxDim), sd.rows0[i]) /\ U32Less(U32(MaxDim), sd.cols0[i])
          /\ sd.rows[i] = U32(ImgH - 1) /\ sd.cols[i] = U32(ImgW - 1)

\* ------------------------------------------------------------- properties of the session
\* C4: resolution 'mid' enables the depth and the colour stream at 848x480 and 'high'
\* at 1280x720, in the configuration the stream is started with; any other value is
\* rejected with nothing configured and nothing started.
C4_ConfiguredResolution ==
    LET want == IF resolution = "mid" THEN <<848, 480>> ELSE <<1280, 720>>
    IN  /\ resolution \in {"mid", "high"} /\ (streaming \/ pc = "ready") =>
              /\ startedWith.depth.w = want[1] /\ startedWith.depth.h = want[2]
              /\ startedWith.color.w = want[1] /\ startedWith.color.h = want[2]
        /\ resolution \notin {"mid", "high"} =>
              /\ config = NoConfig /\ startedWith = NoConfig /\ ~streaming
              /\ pc \in {"new", "failed", "deleted"}
              /\ pc = "failed" => exc = "AssertionError"

C4_Witness ==
    /\ pc = "ready" /\ resolution = "mid" /\ streaming
    /\ startedWith.depth.w = 848 /\ startedWith.color.h = 480

\* C5: on a session whose stream was started, stop(), reset() and the destructor's
\* stop() never end in an exception, however many came before, and stop() leaves
\* the stream stopped.
C5_StopResetIdempotent ==
    startedWith # NoConfig =>
        /\ op \in {"stop", "reset", "__del__"} => exc = "none"
        /\ op \in {"stop", "__del__"} => ~streaming

\* C8: a finished acquisition request has made exactly one wait_for_frames call and
\* at most one point-cloud call; a fault in either ends the request at once with an
\* exception and no result, and a request without a fault returns its whole result.
C8_SingleAttempt ==
    /\ waits <= 1 /\ calcs <= 1
    /\ pc = "ready" /\ op \in Entries =>
          /\ waits = 1
          /\ faultAt = "wait" => calcs = 0 /\ result = "raised" /\ exc = "RuntimeError"
          /\ faultAt = "calculate" => calcs = 1 /\ result = "raised" /\ exc = "RuntimeError"
          /\ faultAt = "none" => calcs = 1 /\ result = ResultOf(op) /\ exc = "none"

C8_Witness ==
    /\ pc = "ready" /\ op = "get_pcd" /\ streaming
    /\ faultAt = "calculate" /\ result = "raised" /\ waits = 1

\* ------------------------------------------------------------- properties of the worker
WorkerEnded == wpc \in {"terminated", "crashed"}

\* the requests put before the first "stop"
RECURSIVE BeforeStop(_)
BeforeStop(q) ==
    IF q = <<>> \/ Head(q) = "stop" THEN <<>> ELSE <<Head(q)>> \o BeforeStop(Tail(q))

AnswerTo(r) == IF r = "intrinsic" THEN "intrinsics" ELSE "frames"
Expected == [i \in 1..Len(BeforeStop(sent)) |-> AnswerTo(BeforeStop(sent)[i])]
Produced == taken \o res_q

\* C6: the responses are the answers to the requests put before "stop", one each and
\* in request order, and the worker does not end while one of them is unanswered:
\* every request is answered, the first and every later one.
C6_EveryRequestAnswered ==
    /\ Len(Produced) <= Len(Expected)
    /\ Produced = SubSeq(Expected, 1, Len(Produced))
    /\ WorkerEnded => Produced = Expected

\* C7: the worker never ends its run with the stream it started still running, and
\* ends it only on "stop", with no response after it.
C7_EndsStoppedOnSentinel ==
    WorkerEnded => /\ ~wStreaming
                   /\ req_packet = "stop"

====
